---------------------------- MODULE Spec2Model ----------------------------
(***************************************************************************)
(* A state-machine model of rusti's ExecutionEngine (src/rusti/exec.rs):   *)
(* the context that owns the native LLVM execution engine and the ordered  *)
(* list of compiled modules, the supervised compilation worker (monitor),  *)
(* the dependency loader and the symbol lookups.                           *)
(*                                                                         *)
(* One calling thread drives the context.  A public method is modelled by  *)
(* a call step followed by the steps of its body, so that the order of the *)
(* body's effects is visible; the position "ret" is the moment the method  *)
(* has returned its value to the caller, and Resume takes the caller back  *)
(* to "idle".  A panic on the calling thread takes it to "panicked".       *)
(*                                                                         *)
(* The toolchain (the four driver phases, used_crates), the native engine  *)
(* and the dynamic loader are the environment: each answer they can give   *)
(* is a choice of the step that asks.  The operating system is taken to    *)
(* spawn the worker thread (line 427) and to accept what the supervisor    *)
(* prints (line 453).                                                      *)
(***************************************************************************)
EXTENDS Integers, Sequences, FiniteSets, TLC

(***************************************************************************)
(* Bounds of the model.                                                    *)
(***************************************************************************)
\* Number of distinct module addresses (llvm::ModuleRef values) in play.
MaxHandles == 3

\* Addresses a ModuleRef can take.  A module address can be taken again by
\* a later module once the earlier one was disposed.
Addr == 1..MaxHandles

\* Symbol names the caller looks up.
Names == {"f", "g"}

\* The names compiled units define; no unit defines "g".
DefinedNames == {"f"}

\* What a module's symbol table holds under a name: nothing, a function
\* (found by LLVMGetNamedFunction) or a global (found by LLVMGetNamedGlobal).
Kinds == {"none", "fn", "global"}

\* The symbol tables a compiled unit can have.
Tables == {t \in [Names -> Kinds] : \A n \in Names \ DefinedNames : t[n] = "none"}

EmptyTable == [n \in Names |-> "none"]

\* External crates of the toolchain's session: A is linked against B.
Crates == {"A", "B"}

DependsOn == {<<"A", "B">>}

\* Option<PathBuf> of a used crate: its dynamic library, or none.
NoPath == "nopath"

PathOf(c) == IF c = "A" THEN "libA.so" ELSE "libB.so"

VARIABLES
    pc,         \* position of the calling thread
    op,         \* the public method it is in ("none" when idle)
    arg,        \* that call's handle or name argument, as a tuple
    ret,        \* the value the call returned, once pc = "ret"
    pre,        \* the context as it was when the call started
    ee,         \* the native engine: "null", "live" or "disposed"
    modules,    \* self.modules: Seq of module addresses, insertion order
    engineMods, \* modules registered with the native engine
    live,       \* addresses of the native modules that are allocated, not
                \* disposed, and that the program still has a reference to
    symtab,     \* symbol table of the module at each address
    loaded,     \* library paths loaded into the process
    wst,        \* the compile worker: "none", its next step, "finished", "panicked"
    ran,        \* toolchain phases the worker has run, in order
    payload,    \* what the worker panicked with
    errors,     \* the session has emitted error diagnostics
    trans,      \* phase 4's translation: number of modules and modules[0]
    crates,     \* used_crates(RequireDynamic) of the session
    wres,       \* the closure's return value: Option<(modp, deps)> or Option<R>
    pending,    \* compile_input's result in the caller: (llmod, deps)
    loadIdx,    \* load_deps: index of the next path to load
    loadLog,    \* the paths this call's load_deps has loaded, in order
    out,        \* what the supervisor wrote for this task, in order
    crashed,    \* some earlier add_module ended in an unexpected worker panic
    freedTwice  \* a native module was released when it was not live

vars == <<pc, op, arg, ret, pre, ee, modules, engineMods, live, symtab, loaded,
          wst, ran, payload, errors, trans, crates, wres, pending, loadIdx,
          loadLog, out, crashed, freedTwice>>

ctxVars == <<ee, modules, engineMods, live, symtab, loaded>>

workerVars == <<wst, ran, payload, errors, trans, crates, wres>>

(***************************************************************************)
(* Values.                                                                 *)
(***************************************************************************)
NoRet == [tag |-> "NoRet", val |-> <<>>]

RetNone == [tag |-> "None", val |-> <<>>]

RetUnit == [tag |-> "Unit", val |-> <<>>]

RetSome(v) == [tag |-> "Some", val |-> v]

NoTrans == [done |-> FALSE, n |-> 0, llmod |-> 0]

NoPending == [some |-> FALSE, llmod |-> 0, deps |-> <<>>]

NoWres == [some |-> FALSE, modp |-> 0, deps |-> <<>>]

\* The part of the state a caller can observe or that outlives a call.
Snapshot == [modules |-> modules, engineMods |-> engineMods, live |-> live,
             symtab |-> symtab, loaded |-> loaded, ee |-> ee]

NoSnapshot == [modules |-> <<>>, engineMods |-> {}, live |-> {},
               symtab |-> [a \in Addr |-> EmptyTable], loaded |-> {},
               ee |-> "null"]

Range(s) == {s[i] : i \in 1..Len(s)}

RECURSIVE Reverse(_)
Reverse(s) == IF s = <<>> THEN <<>> ELSE Append(Reverse(Tail(s)), Head(s))


(***************************************************************************)
(* The toolchain's answer to used_crates(RequireDynamic): the used crates  *)
(* in discovery order, a crate before the crates it is linked against      *)
(* (line 349: "Reverse order finds dependencies first"), each with the     *)
(* path of its dynamic library or none.                                    *)
(***************************************************************************)
CrateOrders ==
    {s \in UNION {[1..n -> Crates] : n \in 0..Cardinality(Crates)} :
        /\ \A i, j \in 1..Len(s) : i # j => s[i] # s[j]
        /\ \A d \in DependsOn :
              d[1] \in Range(s) =>
                 \E i, j \in 1..Len(s) : i < j /\ s[i] = d[1] /\ s[j] = d[2]}

UsedCrateLists ==
    UNION {{[i \in 1..Len(s) |->
                [crate |-> s[i],
                 path  |-> IF hasPath[i] THEN PathOf(s[i]) ELSE NoPath]] :
             hasPath \in [1..Len(s) -> BOOLEAN]} : s \in CrateOrders}

HasPath(c) == c.path # NoPath

\* DepsOf without the .rev(): the paths in discovery order.
DepsOf_discovery_order(cs) ==
    LET kept == SelectSeq(cs, HasPath)
    IN  [i \in 1..Len(kept) |-> kept[i].path]

\* Lines 350-351: crates.into_iter().rev().filter_map(|(_, p)| p).collect()
DepsOf(cs) ==
    LET kept == SelectSeq(Reverse(cs), HasPath)
    IN  [i \in 1..Len(kept) |-> kept[i].path]

(***************************************************************************)
(* The supervisor (monitor, handle_compiler_panic).                        *)
(***************************************************************************)
PanicKinds == {"FatalError", "ExplicitBug", "Other"}

\* The ExplicitBug test left out: every panic but a FatalError is reported.
handle_compiler_panic_reports_all(e) ==
    IF e # "FatalError" THEN <<"bug_report", "flush">> ELSE <<>>

\* The print! after the outer if instead of inside it: the buffer is
\* written whatever the payload.
handle_compiler_panic_flushes_all(e) ==
    (IF e \notin {"FatalError", "ExplicitBug"} THEN <<"bug_report">> ELSE <<>>)
        \o <<"flush">>

\* Lines 438-455: what the supervisor writes after the worker panicked with
\* payload e: the generic bug report ("unexpected panic") to stderr, and the
\* captured buffer to stdout.
handle_compiler_panic(e) ==
    IF e # "FatalError"
    THEN (IF e # "ExplicitBug" THEN <<"bug_report">> ELSE <<>>) \o <<"flush">>
    ELSE <<>>

\* Lines 416-428: monitor allocates the buffer and spawns a fresh worker
\* thread that runs the task from its first step.
Spawn ==
    /\ wst' = "p1"
    /\ ran' = <<>>
    /\ payload' = "none"
    /\ errors' = FALSE
    /\ trans' = NoTrans
    /\ crates' = <<>>
    /\ wres' = NoWres
    /\ out' = <<>>

\* The caller going on without waiting for the worker's end.
Joined_without_waiting == wst # "none"

\* Line 429: handle.join() returns once the worker has finished or
\* panicked.
Joined == wst \in {"finished", "panicked"}

\* monitor as handle.join().unwrap(): the worker's panic goes on in the caller.
monitor_unwrap == IF wst = "finished" THEN "Some" ELSE "Unwind"

\* Lines 429-435: match handle.join(): Ok(r) is Some(r), Err(e) is None (the
\* panic stays in the worker).
monitor == IF wst = "finished" THEN "Some" ELSE "None"

MonitorOut == IF wst = "panicked" THEN handle_compiler_panic(payload) ELSE <<>>

\* Line 364: r.and_then(|r| r).map(|(modp, deps)| (modp as ModuleRef, deps))
CompileInputResult ==
    IF monitor = "Some" /\ wres.some
    THEN [some |-> TRUE, llmod |-> wres.modp, deps |-> wres.deps]
    ELSE NoPending

\* A FatalError is raised after the error was emitted (sess.fatal,
\* abort_if_errors).
WorkerPanics(kind) ==
    /\ wst' = "panicked"
    /\ payload' = kind
    /\ errors' = (errors \/ kind = "FatalError")

\* The Err emitted but not returned: the task goes on with the next phase.
WorkerFails_goes_on ==
    /\ wst' = (IF wst = "p1" THEN "p2" ELSE IF wst = "p2" THEN "p3" ELSE "entry")
    /\ wres' = NoWres
    /\ errors' = TRUE
    /\ UNCHANGED payload

\* A phase returned Err: its diagnostics are out, the closure returns None.
WorkerFails ==
    /\ wst' = "finished"
    /\ wres' = NoWres
    /\ errors' = TRUE
    /\ UNCHANGED payload

\* abort_if_errors left out: errors do not stop the closure.
abort_if_errors_never(errs) == FALSE

\* Lines 339 and 344: tcx.sess.abort_if_errors() raises FatalError exactly
\* when the session has errors.
abort_if_errors(errs) == errs

\* The worker's steps leave the calling thread and the context alone.
WorkerFrame ==
    UNCHANGED <<pc, op, arg, ret, pre, ee, modules, engineMods, loaded,
                pending, loadIdx, loadLog, out, crashed, freedTwice>>

(***************************************************************************)
(* The compilation task (the closures of compile_input and with_analysis). *)
(***************************************************************************)
\* Lines 320-326 and 385-391: phase_1_parse_input; an Err is emitted and the
\* closure returns None.
Phase1 ==
    /\ wst = "p1"
    /\ ran' = Append(ran, 1)
    /\ \/ wst' = "p2" /\ UNCHANGED <<payload, errors, wres>>
       \/ WorkerFails
       \/ \E k \in PanicKinds : WorkerPanics(k) /\ UNCHANGED wres
    /\ UNCHANGED <<trans, crates, live, symtab>>
    /\ WorkerFrame

\* Lines 328-331 and 393-397: phase_2_configure_and_expand under try!: an
\* Err leaves check_compile's closure, and check_compile (412-414) makes it
\* None.
Phase2 ==
    /\ wst = "p2"
    /\ ran' = Append(ran, 2)
    /\ \/ wst' = "p3" /\ UNCHANGED <<payload, errors, wres>>
       \/ WorkerFails
       \/ \E k \in PanicKinds : WorkerPanics(k) /\ UNCHANGED wres
    /\ UNCHANGED <<trans, crates, live, symtab>>
    /\ WorkerFrame

\* with_analysis handing phase 3 the closure of compile_input.
phase3_callback_translates(o) == "entry"

\* Lines 338-359 and 404-407: the closure phase 3 calls: with_analysis's
\* calls the inspector f, compile_input's goes on to translate.
phase3_callback(o) == IF o = "with_analysis" THEN "inspect" ELSE "entry"

\* Lines 336-338 and 402-404: phase_3_run_analysis_passes, which hands its
\* result to the task's closure or returns Err.
Phase3 ==
    /\ wst = "p3"
    /\ ran' = Append(ran, 3)
    /\ \/ /\ wst' = phase3_callback(op)
          /\ UNCHANGED <<payload, errors, wres>>
       \/ WorkerFails
       \/ \E k \in PanicKinds : WorkerPanics(k) /\ UNCHANGED wres
    /\ UNCHANGED <<trans, crates, live, symtab>>
    /\ WorkerFrame

\* Lines 339 and 342: abort_if_errors, as the analysis left errors or not;
\* then mir_map.expect panics when there is no MIR map.
ClosureEntry ==
    /\ wst = "entry"
    /\ \E errs \in BOOLEAN :
          IF abort_if_errors(errs)
          THEN WorkerPanics("FatalError")
          ELSE /\ errors' = (errors \/ errs)
               /\ \/ wst' = "p4" /\ UNCHANGED payload
                  \/ wst' = "panicked" /\ payload' = "Other"
    /\ UNCHANGED <<ran, trans, crates, wres, live, symtab>>
    /\ WorkerFrame

\* Lines 341-342: phase_4_translate_to_llvm builds trans.modules; the native
\* module modules[0] is allocated at an address no live module has.
Phase4 ==
    /\ wst = "p4"
    /\ ran' = Append(ran, 4)
    /\ \/ /\ wst' = "post"
          /\ \/ /\ trans' = [done |-> TRUE, n |-> 0, llmod |-> 0]
                /\ UNCHANGED <<live, symtab>>
             \/ \E a \in Addr \ live, t \in Tables, n \in 1..2 :
                   /\ op = "new" => t = EmptyTable
                   /\ trans' = [done |-> TRUE, n |-> n, llmod |-> a]
                   /\ live' = live \cup {a}
                   /\ symtab' = [symtab EXCEPT ![a] = t]
          /\ UNCHANGED <<payload, errors>>
       \/ /\ \E k \in PanicKinds : WorkerPanics(k)
          /\ UNCHANGED <<trans, live, symtab>>
    /\ UNCHANGED <<crates, wres>>
    /\ WorkerFrame

\* Lines 344 and 353: a panic after phase 4 unwinds past trans without
\* disposing its modules.  Such a module stays allocated for the rest of the
\* process and nothing refers to it; the model stops tracking it, so that
\* its address stands for any address of a later module.
Leak ==
    /\ live' = live \ {trans.llmod}
    /\ symtab' = [a \in Addr |-> IF a = trans.llmod THEN EmptyTable
                                 ELSE symtab[a]]

\* The assertion left out: modules[0] is taken whatever the count.
assert_one_module_skipped == TRUE

\* Line 353: assert_eq!(trans.modules.len(), 1).
assert_one_module == trans.n = 1

\* Lines 344-359: abort_if_errors, then the dependency list from used_crates,
\* then assert_eq!(trans.modules.len(), 1) and the closure's value.
PostTranslate ==
    /\ wst = "post"
    /\ \E errs \in BOOLEAN :
          IF abort_if_errors(errs)
          THEN WorkerPanics("FatalError") /\ Leak /\ UNCHANGED <<crates, wres>>
          ELSE \E cs \in UsedCrateLists :
                  /\ crates' = cs
                  /\ errors' = (errors \/ errs)
                  /\ IF assert_one_module
                     THEN /\ wst' = "finished"
                          /\ wres' = [some |-> TRUE, modp |-> trans.llmod,
                                      deps |-> DepsOf(cs)]
                          /\ UNCHANGED <<payload, live, symtab>>
                     ELSE /\ wst' = "panicked"
                          /\ payload' = "Other"
                          /\ Leak
                          /\ UNCHANGED wres
    /\ UNCHANGED <<ran, trans>>
    /\ WorkerFrame

\* Lines 404-407: with_analysis's closure calls the inspector f, which
\* returns its R or panics.
Inspect ==
    /\ wst = "inspect"
    /\ \/ /\ wst' = "finished"
          /\ wres' = [some |-> TRUE, modp |-> 0, deps |-> <<>>]
          /\ UNCHANGED <<payload, errors>>
       \/ \E k \in PanicKinds : WorkerPanics(k) /\ UNCHANGED wres
    /\ UNCHANGED <<ran, trans, crates, live, symtab>>
    /\ WorkerFrame

(***************************************************************************)
(* Symbol lookup.  An address is <<module, name>>: the code or data the    *)
(* engine holds for that module's definition of the name.                  *)
(***************************************************************************)
\* Lines 176-188 and 198-210: for m in self.modules.iter().rev(): the first
\* module whose table has the name with the wanted kind decides; its
\* pointer is non-null when the engine holds the module (else the assert!
\* panics).  Reading the table of a disposed module is undefined.
RECURSIVE ScanModules(_, _, _, _)
ScanModules(c, i, kind, name) ==
    IF i = 0 THEN RetNone
    ELSE LET m == c.modules[i]
         IN  IF m \notin c.live THEN [tag |-> "Undefined", val |-> <<>>]
             ELSE IF c.symtab[m][name] = kind
                  THEN IF m \in c.engineMods
                       THEN RetSome(<<m, name>>)
                       ELSE [tag |-> "Panic", val |-> <<>>]
                  ELSE ScanModules(c, i - 1, kind, name)

\* The scan without .rev(): the oldest module that has the name decides.
RECURSIVE ScanOldestFirst(_, _, _, _)
ScanOldestFirst(c, i, kind, name) ==
    IF i > Len(c.modules) THEN RetNone
    ELSE LET m == c.modules[i]
         IN  IF m \notin c.live THEN [tag |-> "Undefined", val |-> <<>>]
             ELSE IF c.symtab[m][name] = kind
                  THEN IF m \in c.engineMods
                       THEN RetSome(<<m, name>>)
                       ELSE [tag |-> "Panic", val |-> <<>>]
                  ELSE ScanOldestFirst(c, i + 1, kind, name)

get_function_oldest_first(c, name) == ScanOldestFirst(c, 1, "fn", name)

\* Lines 173-189.
get_function(c, name) == ScanModules(c, Len(c.modules), "fn", name)

\* get_global asking LLVMGetNamedFunction, as get_function does.
get_global_as_function(c, name) == ScanModules(c, Len(c.modules), "fn", name)

\* Lines 195-211.
get_global(c, name) == ScanModules(c, Len(c.modules), "global", name)

\* swap_remove(i) for remove(i): the last entry takes the place of entry i.
RemoveAt_swap(s, i) ==
    [j \in 1..(Len(s) - 1) |-> IF j = i THEN s[Len(s)] ELSE s[j]]

\* remove(i) gone: the entry stays in the list.
RemoveAt_keeps(s, i) == s

\* Line 146: self.modules.remove(i), i the first position of llmod.
RemoveAt(s, i) == SubSeq(s, 1, i - 1) \o SubSeq(s, i + 1, Len(s))

\* position(..).unwrap_or(0): a handle that is not there counts as entry 0.
Position_or_first(s, h) ==
    IF h \in Range(s) THEN CHOOSE i \in 1..Len(s) :
                              s[i] = h /\ \A j \in 1..(i - 1) : s[j] # h
    ELSE 1

\* Line 144: self.modules.iter().position(|p| *p == llmod); 0 stands for None.
Position(s, h) ==
    IF h \in Range(s) THEN CHOOSE i \in 1..Len(s) :
                              s[i] = h /\ \A j \in 1..(i - 1) : s[j] # h
    ELSE 0

(***************************************************************************)
(* The calling thread.                                                     *)
(***************************************************************************)
CallFrame == UNCHANGED <<ret, pending, loadIdx, loadLog, crashed, freedTwice>>

\* Lines 83-85: new compiles the empty string as the seed unit.
New ==
    /\ pc = "init"
    /\ pc' = "new_join"
    /\ op' = "new"
    /\ arg' = <<>>
    /\ pre' = Snapshot
    /\ Spawn
    /\ UNCHANGED <<live, symtab>>
    /\ UNCHANGED <<ee, modules, engineMods, loaded>>
    /\ CallFrame

\* Lines 89-94: new_with_input compiles the caller's seed unit.
NewWithInput ==
    /\ pc = "init"
    /\ pc' = "new_join"
    /\ op' = "new_with_input"
    /\ arg' = <<>>
    /\ pre' = Snapshot
    /\ Spawn
    /\ UNCHANGED <<live, symtab>>
    /\ UNCHANGED <<ee, modules, engineMods, loaded>>
    /\ CallFrame

\* Lines 93-95: compile_input(..).expect(..): None panics.
NewJoin ==
    /\ pc = "new_join"
    /\ Joined
    /\ out' = MonitorOut
    /\ wst' = "none"
    /\ IF monitor = "Unwind"
       THEN pending' = NoPending /\ pc' = "panicked"
       ELSE IF CompileInputResult.some
            THEN pending' = CompileInputResult /\ pc' = "new_build"
            ELSE pending' = NoPending /\ pc' = "panicked"
    /\ UNCHANGED <<op, arg, ret, pre, loadIdx, loadLog, crashed, freedTwice>>
    /\ crates' = <<>>
    /\ UNCHANGED <<ran, payload, errors, trans, wres>>
    /\ UNCHANGED ctxVars

\* The null check left out: the struct is built around whatever came back.
is_null_unchecked(e) == FALSE

\* Line 99: ee.is_null().
is_null(e) == e = "null"

\* Lines 97-108: LLVMBuildExecutionEngine(llmod) answers an engine holding
\* llmod, or null; a null engine panics, else the struct is built with
\* modules = vec![llmod].
NewBuild ==
    /\ pc = "new_build"
    /\ \E e \in {"live", "null"} :
          IF is_null(e)
          THEN /\ pc' = "panicked"
               /\ UNCHANGED <<ee, engineMods, modules, loadIdx>>
          ELSE /\ ee' = e
               /\ engineMods' = (IF e = "live" THEN {pending.llmod} ELSE {})
               /\ modules' = <<pending.llmod>>
               /\ loadIdx' = 1
               /\ pc' = "new_load"
    /\ UNCHANGED <<op, arg, ret, pre, pending, loadLog, out, crashed, freedTwice>>
    /\ UNCHANGED <<live, symtab, loaded>>
    /\ UNCHANGED workerVars

InLoadDeps == pc \in {"new_load", "add_load"}

\* Line 216: for path in deps.iter(): the path this iteration is at.
NextDep == pending.deps[loadIdx]

\* The result of the load ignored.
load_never_panics(res) == FALSE

\* Lines 219-223 and 228-231: an iteration panics when the path is not
\* UTF-8 or LLVMRustLoadDynamicLibrary answered 0.
load_panics(res) == res = 0

\* The loop left after its first path.
LoopOver_early == loadIdx > 1 \/ loadIdx > Len(pending.deps)

\* Line 216: the iterator is exhausted.
LoopOver == loadIdx > Len(pending.deps)

\* Lines 216-232, one iteration of load_deps; res is 1 when the library was
\* loaded, 0 when it was not (or its path could not be handed over).
LoadDep ==
    /\ InLoadDeps
    /\ ~LoopOver
    /\ \E res \in {0, 1} :
          IF load_panics(res)
          THEN /\ pc' = "panicked"
               /\ UNCHANGED <<loaded, loadIdx, loadLog>>
          ELSE /\ loaded' = (IF res = 1 THEN loaded \cup {NextDep} ELSE loaded)
               /\ loadLog' = (IF res = 1 THEN Append(loadLog, NextDep)
                              ELSE loadLog)
               /\ loadIdx' = loadIdx + 1
               /\ UNCHANGED pc
    /\ UNCHANGED <<op, arg, ret, pre, pending, out, crashed, freedTwice>>
    /\ UNCHANGED <<ee, modules, engineMods, live, symtab>>
    /\ UNCHANGED workerVars

\* Line 216: the loop is over; load_deps returns to line 112 or line 130.
LoadDepsDone ==
    /\ InLoadDeps
    /\ LoopOver
    /\ IF pc = "new_load"
       THEN pc' = "ret" /\ ret' = RetUnit
       ELSE pc' = "add_push" /\ UNCHANGED ret
    /\ UNCHANGED <<op, arg, pre, pending, loadIdx, loadLog, out, crashed,
                   freedTwice>>
    /\ UNCHANGED ctxVars
    /\ UNCHANGED workerVars

\* Lines 118-123: add_module starts compile_input.
AddModule ==
    /\ pc = "idle"
    /\ pc' = "add_join"
    /\ op' = "add_module"
    /\ arg' = <<>>
    /\ pre' = Snapshot
    /\ Spawn
    /\ UNCHANGED <<live, symtab>>
    /\ UNCHANGED <<ee, modules, engineMods, loaded>>
    /\ CallFrame

\* Lines 122-128: None returns None; Some((llmod, deps)) goes on to load_deps.
AddJoin ==
    /\ pc = "add_join"
    /\ Joined
    /\ out' = MonitorOut
    /\ wst' = "none"
    /\ crashed' = (crashed \/ (wst = "panicked" /\ payload = "Other"))
    /\ IF monitor = "Unwind"
       THEN /\ pc' = "panicked"
            /\ UNCHANGED <<ret, pending, loadIdx>>
       ELSE IF CompileInputResult.some
            THEN /\ pending' = CompileInputResult
                 /\ loadIdx' = 1
                 /\ pc' = "add_load"
                 /\ UNCHANGED ret
            ELSE /\ ret' = RetNone
                 /\ pc' = "ret"
                 /\ UNCHANGED <<pending, loadIdx>>
    /\ UNCHANGED <<op, arg, pre, loadLog, freedTwice>>
    /\ crates' = <<>>
    /\ UNCHANGED <<ran, payload, errors, trans, wres>>
    /\ UNCHANGED ctxVars

\* insert(0, llmod) for push: the new module goes to the front.
push_front(s, m) == <<m>> \o s

\* Line 130: Vec::push.
push(s, m) == Append(s, m)

\* Line 130: self.modules.push(llmod).
AddPush ==
    /\ pc = "add_push"
    /\ modules' = push(modules, pending.llmod)
    /\ pc' = "add_register"
    /\ UNCHANGED <<op, arg, ret, pre, pending, loadIdx, loadLog, out, crashed,
                   freedTwice>>
    /\ UNCHANGED <<ee, engineMods, live, symtab, loaded>>
    /\ UNCHANGED workerVars

\* Lines 132-134: LLVMExecutionEngineAddModule(self.ee, llmod); Some(llmod).
AddRegister ==
    /\ pc = "add_register"
    /\ engineMods' = engineMods \cup {pending.llmod}
    /\ ret' = RetSome(<<pending.llmod>>)
    /\ pc' = "ret"
    /\ UNCHANGED <<op, arg, pre, pending, loadIdx, loadLog, out, crashed,
                   freedTwice>>
    /\ UNCHANGED <<ee, modules, live, symtab, loaded>>
    /\ UNCHANGED workerVars

\* Lines 143-146 and 155: the handle's position in self.modules; None
\* panics, Some(i) removes entry i.
RemoveModule ==
    /\ pc = "idle"
    /\ \E h \in Addr :
          /\ arg' = <<h>>
          /\ IF Position(modules, h) # 0
             THEN /\ modules' = RemoveAt(modules, Position(modules, h))
                  /\ pc' = "rm_unregister"
             ELSE /\ pc' = "panicked"
                  /\ UNCHANGED modules
    /\ op' = "remove_module"
    /\ pre' = Snapshot
    /\ UNCHANGED <<ret, pending, loadIdx, loadLog, out, crashed, freedTwice>>
    /\ UNCHANGED <<ee, engineMods, live, symtab, loaded>>
    /\ UNCHANGED workerVars

\* The call to the engine left out: the engine keeps the module.
unregister_skipped(em, m) == em

\* Lines 147-149: LLVMExecutionEngineRemoveModule(self.ee, llmod).
unregister(em, m) == em \ {m}

\* Lines 147-151: LLVMExecutionEngineRemoveModule answers 1 when the engine
\* held the module; assert_eq!(res, 1).
RemoveUnregister ==
    /\ pc = "rm_unregister"
    /\ engineMods' = unregister(engineMods, arg[1])
    /\ pc' = (IF arg[1] \in engineMods THEN "rm_dispose" ELSE "panicked")
    /\ UNCHANGED <<op, arg, ret, pre, pending, loadIdx, loadLog, out, crashed,
                   freedTwice>>
    /\ UNCHANGED <<ee, modules, live, symtab, loaded>>
    /\ UNCHANGED workerVars

\* Line 153: LLVMDisposeModule(llmod); remove_module returns.
RemoveDispose ==
    /\ pc = "rm_dispose"
    /\ live' = live \ {arg[1]}
    /\ symtab' = [symtab EXCEPT ![arg[1]] = EmptyTable]
    /\ freedTwice' = (freedTwice \/ arg[1] \notin live)
    /\ ret' = RetUnit
    /\ pc' = "ret"
    /\ UNCHANGED <<op, arg, pre, pending, loadIdx, loadLog, out, crashed>>
    /\ UNCHANGED <<ee, modules, engineMods, loaded>>
    /\ UNCHANGED workerVars

\* Lines 162-166 and 369-372: with_analysis starts the analysis task.
WithAnalysis ==
    /\ pc = "idle"
    /\ pc' = "an_join"
    /\ op' = "with_analysis"
    /\ arg' = <<>>
    /\ pre' = Snapshot
    /\ Spawn
    /\ UNCHANGED <<live, symtab>>
    /\ UNCHANGED <<ee, modules, engineMods, loaded>>
    /\ CallFrame

\* Lines 372, 409 and 429-435: monitor(..).and_then(|r| r).
AnalysisJoin ==
    /\ pc = "an_join"
    /\ Joined
    /\ out' = MonitorOut
    /\ wst' = "none"
    /\ IF monitor = "Unwind"
       THEN pc' = "panicked" /\ UNCHANGED ret
       ELSE /\ pc' = "ret"
            /\ ret' = (IF monitor = "Some" /\ wres.some THEN RetSome(<<"R">>)
                       ELSE RetNone)
    /\ UNCHANGED <<op, arg, pre, pending, loadIdx, loadLog, crashed, freedTwice>>
    /\ crates' = <<>>
    /\ UNCHANGED <<ran, payload, errors, trans, wres>>
    /\ UNCHANGED ctxVars

\* What a lookup that came to r does to the caller: r is returned, the
\* assert! panics, or (a disposed module was read) anything of the two.
LookupEnds(r) ==
    IF r.tag = "Undefined"
    THEN \/ pc' = "panicked" /\ UNCHANGED ret
         \/ \E v \in {RetNone} \cup {RetSome(<<a, arg'[1]>>) : a \in Addr} :
               pc' = "ret" /\ ret' = v
    ELSE IF r.tag = "Panic"
         THEN pc' = "panicked" /\ UNCHANGED ret
         ELSE pc' = "ret" /\ ret' = r

\* Lines 173-189.
GetFunction ==
    /\ pc = "idle"
    /\ \E name \in Names :
          /\ arg' = <<name>>
          /\ LookupEnds(get_function(Snapshot, name))
    /\ op' = "get_function"
    /\ pre' = Snapshot
    /\ UNCHANGED <<pending, loadIdx, loadLog, out, crashed, freedTwice>>
    /\ UNCHANGED ctxVars
    /\ UNCHANGED workerVars

\* Lines 195-211.
GetGlobal ==
    /\ pc = "idle"
    /\ \E name \in Names :
          /\ arg' = <<name>>
          /\ LookupEnds(get_global(Snapshot, name))
    /\ op' = "get_global"
    /\ pre' = Snapshot
    /\ UNCHANGED <<pending, loadIdx, loadLog, out, crashed, freedTwice>>
    /\ UNCHANGED ctxVars
    /\ UNCHANGED workerVars

\* The caller has its value and goes on; the call's locals are gone.
Resume ==
    /\ pc = "ret"
    /\ pc' = "idle"
    /\ op' = "none"
    /\ arg' = <<>>
    /\ ret' = NoRet
    /\ pre' = NoSnapshot
    /\ wst' = "none"
    /\ ran' = <<>>
    /\ payload' = "none"
    /\ errors' = FALSE
    /\ trans' = NoTrans
    /\ crates' = <<>>
    /\ wres' = NoWres
    /\ pending' = NoPending
    /\ loadIdx' = 0
    /\ loadLog' = <<>>
    /\ out' = <<>>
    /\ UNCHANGED <<crashed, freedTwice>>
    /\ UNCHANGED ctxVars

\* Drop without the call: the engine is left allocated.
drop_engine_leaks(e) == e

\* Line 238: LLVMDisposeExecutionEngine(self.ee).
drop_engine(e) == "disposed"

\* Lines 236-240: the context is dropped (by its owner, or while a panic
\* unwinds): LLVMDisposeExecutionEngine(self.ee) releases the engine and the
\* modules it holds; the Vec goes with the struct.
Drop ==
    /\ ee = "live"
    /\ pc \in {"idle", "panicked"}
    /\ pc' = (IF pc = "idle" THEN "dropped" ELSE pc)
    /\ ee' = drop_engine(ee)
    /\ live' = live \ engineMods
    /\ symtab' = [a \in Addr |-> IF a \in engineMods THEN EmptyTable
                                 ELSE symtab[a]]
    /\ freedTwice' = (freedTwice \/ ~(engineMods \subseteq live))
    /\ engineMods' = {}
    /\ modules' = <<>>
    /\ UNCHANGED <<op, arg, ret, pre, pending, loadIdx, loadLog, out, crashed,
                   loaded>>
    /\ UNCHANGED workerVars

Init ==
    /\ pc = "init"
    /\ op = "none"
    /\ arg = <<>>
    /\ ret = NoRet
    /\ pre = NoSnapshot
    /\ ee = "null"
    /\ modules = <<>>
    /\ engineMods = {}
    /\ live = {}
    /\ symtab = [a \in Addr |-> EmptyTable]
    /\ loaded = {}
    /\ wst = "none"
    /\ ran = <<>>
    /\ payload = "none"
    /\ errors = FALSE
    /\ trans = NoTrans
    /\ crates = <<>>
    /\ wres = NoWres
    /\ pending = NoPending
    /\ loadIdx = 0
    /\ loadLog = <<>>
    /\ out = <<>>
    /\ crashed = FALSE
    /\ freedTwice = FALSE

Next ==
    \/ New
    \/ NewWithInput
    \/ NewJoin
    \/ NewBuild
    \/ LoadDep
    \/ LoadDepsDone
    \/ AddModule
    \/ AddJoin
    \/ AddPush
    \/ AddRegister
    \/ RemoveModule
    \/ RemoveUnregister
    \/ RemoveDispose
    \/ WithAnalysis
    \/ AnalysisJoin
    \/ GetFunction
    \/ GetGlobal
    \/ Resume
    \/ Drop
    \/ Phase1
    \/ Phase2
    \/ Phase3
    \/ ClosureEntry
    \/ Phase4
    \/ PostTranslate
    \/ Inspect

Spec == Init /\ [][Next]_vars

(***************************************************************************)
(* Properties.                                                             *)
(***************************************************************************)
\* The call o has returned to its caller.
Returned(o) == pc = "ret" /\ op = o

\* The worker of the current call has been joined.
JoinedCall == op # "none" /\ wst = "none"

\* Positions of the registered modules that define name with the kind.
Definers(kind, name) ==
    {i \in 1..Len(modules) :
        modules[i] \in engineMods /\ symtab[modules[i]][name] = kind}

Last(S) == CHOOSE i \in S : \A j \in S : j <= i

MostRecent(kind, name) ==
    IF Definers(kind, name) = {} THEN RetNone
    ELSE RetSome(<<modules[Last(Definers(kind, name))], name>>)

SameLookups ==
    \A n \in Names :
        /\ get_function(Snapshot, n) = get_function(pre, n)
        /\ get_global(Snapshot, n) = get_global(pre, n)

\* C1: get_function(name) and get_global(name) return the address bound in
\* the most recently added module that is still registered and defines the
\* name (a later module shadows an earlier one; once it is removed the
\* earlier one answers again), and None when there is none.
C1_Shadowing ==
    /\ Returned("get_function") => ret = MostRecent("fn", arg[1])
    /\ Returned("get_global") => ret = MostRecent("global", arg[1])

\* C1's case: two registered modules define the function and the lookup
\* returned the address in the later one, which is not the first entry.
C1_Witness ==
    /\ Returned("get_function")
    /\ Cardinality(Definers("fn", arg[1])) >= 2
    /\ ret = RetSome(<<modules[Len(modules)], arg[1]>>)
    /\ modules[Len(modules)] # modules[1]

\* C2: when the compilation inside add_module ends in a diagnosed failure
\* (the session emitted errors), add_module returns None and the module
\* list, the engine's registrations, the loaded dependencies and every
\* lookup are as they were before the call.
C2_FailureIsolation ==
    (op = "add_module" /\ JoinedCall /\ errors) =>
        /\ pc = "ret"
        /\ ret = RetNone
        /\ modules = pre.modules
        /\ engineMods = pre.engineMods
        /\ loaded = pre.loaded
        /\ SameLookups

\* C2's case: an add_module whose compile failed after code generation has
\* returned, with an earlier module's function still resolvable.
C2_Witness ==
    /\ Returned("add_module")
    /\ errors
    /\ 4 \in Range(ran)
    /\ Len(modules) >= 2
    /\ get_function(Snapshot, "f").tag = "Some"

\* C3: when add_module's worker ends in an unexpected panic, add_module
\* returns None, the caller keeps running (no panic on the calling thread,
\* the engine alive) with the context unchanged; and an add_module after
\* such a crash whose compile succeeds returns its module, appended and
\* registered.
C3_CrashIsolation ==
    /\ (op = "add_module" /\ JoinedCall /\ payload = "Other") =>
          /\ pc = "ret"
          /\ ret = RetNone
          /\ ee = "live"
          /\ modules = pre.modules
          /\ engineMods = pre.engineMods
          /\ loaded = pre.loaded
          /\ SameLookups
    /\ (crashed /\ op = "add_module" /\ JoinedCall /\ wres.some) =>
          /\ pc \in {"add_load", "add_push", "add_register", "ret", "panicked"}
          /\ pc = "panicked" => loadLog # pending.deps
          /\ pc = "ret" =>
                /\ ret = RetSome(<<wres.modp>>)
                /\ modules = Append(pre.modules, wres.modp)
                /\ engineMods = pre.engineMods \cup {wres.modp}

\* C3's case: after an earlier crash, an add_module has returned its module.
C3_Witness ==
    /\ crashed
    /\ Returned("add_module")
    /\ ret.tag = "Some"
    /\ ret.val[1] \in engineMods

\* C4: remove_module with a handle that is not in the module list panics,
\* and until the unwinding drops the context the module list, the engine's
\* registrations and the native modules are as before the call.
C4_RemoveUnknownPanics ==
    (op = "remove_module" /\ arg[1] \notin Range(pre.modules)) =>
        /\ pc = "panicked"
        /\ ee = "live" =>
              /\ modules = pre.modules
              /\ engineMods = pre.engineMods
              /\ live = pre.live
              /\ symtab = pre.symtab

\* C4's case: a handle that was never added or was removed before is
\* removed from a context holding two modules.
C4_Witness ==
    /\ op = "remove_module"
    /\ pc = "panicked"
    /\ ee = "live"
    /\ arg[1] \notin Range(pre.modules)
    /\ Len(pre.modules) >= 2

DefinedOnlyBy(c, h, kind, name) ==
    /\ c.symtab[h][name] = kind
    /\ \A i \in 1..Len(c.modules) :
          c.modules[i] # h => c.symtab[c.modules[i]][name] # kind

C6_DepsBeforeRegistration ==
    op = "add_module" =>
        /\ (pending.some /\ (pending.llmod \in Range(modules)
                               \/ pending.llmod \in engineMods)) =>
              /\ loadLog = pending.deps
              /\ Range(pending.deps) \subseteq loaded
        /\ (pc = "panicked" /\ ee = "live") =>
              /\ modules = pre.modules
              /\ engineMods = pre.engineMods
              /\ pending.llmod \notin Range(modules) \cup engineMods

\* C6's case: a module with two dependencies is appended and not yet
\* registered.
C6_Witness ==
    /\ op = "add_module"
    /\ pc = "add_register"
    /\ Len(pending.deps) = 2
    /\ pending.llmod \in Range(modules)

InNew == op \in {"new", "new_with_input"}

\* C7 as stated: on every path, the seed's included, a module's dependencies
\* are all loaded before the engine holds the module.
C7_LoadedBeforeEngine ==
    (op \in {"new", "new_with_input", "add_module"} /\ pending.some
        /\ pending.llmod \in engineMods) =>
        loadLog = pending.deps

\* C7 amended: add_module loads a module's dependencies before the engine
\* holds the module; new and new_with_input build the engine from the seed
\* module first and load the seed's dependencies afterwards, all of them
\* before the context is returned to the caller.
C7_LoadedBeforeUsable ==
    /\ (op = "add_module" /\ pending.some /\ pending.llmod \in engineMods) =>
          /\ loadLog = pending.deps
          /\ Range(pending.deps) \subseteq loaded
    /\ (InNew /\ pc = "new_load") =>
          /\ ee = "live"
          /\ pending.llmod \in engineMods
    /\ (InNew /\ pc = "ret") =>
          /\ loadLog = pending.deps
          /\ Range(pending.deps) \subseteq loaded
    /\ (InNew /\ ee = "null") => loadLog = <<>>

\* C7's case: new_with_input returns a context whose seed has two
\* dependencies.
C7_Witness ==
    /\ Returned("new_with_input")
    /\ Len(pending.deps) = 2
    /\ modules = <<pending.llmod>>

\* The crates that have a path, last discovered first.
ExpectedDeps(cs) ==
    LET w == SelectSeq(cs, HasPath)
    IN  [i \in 1..Len(w) |-> w[Len(w) + 1 - i].path]

\* In s, the library of a crate comes after the libraries of the crates it
\* is linked against.
DependenciesFirst(s) ==
    \A d \in DependsOn : \A i, j \in 1..Len(s) :
        (s[i] = PathOf(d[1]) /\ s[j] = PathOf(d[2])) => j < i

\* C8: the DependencySet of a successful compile is used_crates in reverse
\* discovery order without the entries that have no path; load_deps loads
\* its paths one at a time in sequence order; so the library of a crate is
\* listed, and loaded, after the libraries it depends on.
C8_DependencyOrder ==
    /\ (wst = "finished" /\ wres.some /\ op # "with_analysis") =>
          /\ wres.deps = ExpectedDeps(crates)
          /\ DependenciesFirst(wres.deps)
    /\ pending.some =>
          /\ Len(loadLog) <= Len(pending.deps)
          /\ loadLog = SubSeq(pending.deps, 1, Len(loadLog))
          /\ InLoadDeps => Len(loadLog) = loadIdx - 1
          /\ Range(loadLog) \subseteq loaded
          /\ DependenciesFirst(loadLog)
          /\ \A d \in DependsOn :
                (PathOf(d[1]) \in Range(loadLog)
                    /\ PathOf(d[2]) \in Range(pending.deps)) =>
                   PathOf(d[2]) \in Range(loadLog)

\* C8's case: a unit depending on A, which depends on B: B's library was
\* loaded, then A's.
C8_Witness ==
    /\ pending.deps = <<PathOf("B"), PathOf("A")>>
    /\ loadLog = <<PathOf("B"), PathOf("A")>>

\* C9: whenever the caller has the context in hand (after construction and
\* after every call that returned), every handle of the module list is
\* registered with the engine and not disposed; after remove_module(h) has
\* returned, h is not in the list, not registered, and disposed.
C9_ListedAreRegistered ==
    /\ pc \in {"idle", "ret"} =>
          \A i \in 1..Len(modules) :
             modules[i] \in engineMods /\ modules[i] \in live
    /\ Returned("remove_module") =>
          /\ arg[1] \notin Range(modules)
          /\ arg[1] \notin engineMods
          /\ arg[1] \notin live

\* C9's case: remove_module has returned and two modules remain listed.
C9_Witness ==
    /\ Returned("remove_module")
    /\ arg[1] \in Range(pre.modules)
    /\ Len(modules) >= 2

\* The compile produced zero or several native modules and came to the
\* assertion of line 353, which panicked in the worker.
AssertFired == trans.done /\ trans.n # 1 /\ payload = "Other"

\* C10 as stated: a compile producing zero or more than one native module
\* aborts the calling operation; add_module does not return from it.
C10_WrongCountAborts ==
    (op \in {"new", "new_with_input", "add_module"} /\ JoinedCall
        /\ AssertFired) =>
        pc = "panicked"

\* C10 amended: a compile producing zero or more than one native module
\* never yields a Success; the assertion panics inside the worker, the
\* supervisor reports it as an unexpected panic and compile_input returns
\* None: new and new_with_input then abort without an engine, while
\* add_module returns None with the context unchanged.
C10_WrongCountIsWorkerPanic ==
    /\ (trans.done /\ trans.n # 1) => ~wres.some /\ ~pending.some
    /\ (JoinedCall /\ AssertFired) =>
          /\ out = <<"bug_report", "flush">>
          /\ InNew => (pc = "panicked" /\ ee = "null")
          /\ op = "add_module" =>
                /\ pc = "ret"
                /\ ret = RetNone
                /\ modules = pre.modules
                /\ engineMods = pre.engineMods
                /\ loaded = pre.loaded

\* C10's case: add_module has returned None from a compile that produced
\* two native modules.
C10_Witness ==
    /\ Returned("add_module")
    /\ AssertFired
    /\ trans.n = 2
    /\ ret = RetNone

\* The step is the one that drops the context.
DropStep == pc \in {"idle", "panicked"} /\ modules' = <<>> /\ engineMods' = {}

\* C11: the engine, once created (line 97, in new or new_with_input), is
\* disposed at most once and only by the drop of the context, which does
\* dispose it; the context built by a constructor whose load_deps panicked
\* is dropped by the unwinding; and no step inside add_module,
\* remove_module, with_analysis, get_function or get_global changes the
\* engine.
C11_EngineDisposedOnce ==
    [][/\ ee' # ee =>
             \/ pc = "new_build" /\ ee = "null" /\ ee' = "live"
             \/ DropStep /\ ee = "live" /\ ee' = "disposed"
       /\ pc' = "dropped" => ee' = "disposed"
       /\ (pc = "panicked" /\ InNew /\ ee = "live") => ee' = "disposed"
       /\ pc \notin {"idle", "panicked", "new_build"} => ee' = ee
       /\ (pc = "idle" /\ pc' \notin {"idle", "dropped"}) => ee' = ee]_vars

\* C11's case: a constructor built the engine, a dependency of the seed
\* did not load, and the unwinding has dropped the context.
C11_Witness ==
    /\ InNew
    /\ pc = "panicked"
    /\ ee = "disposed"
    /\ pending.some
    /\ loadLog # pending.deps

\* C12: new and new_with_input end in one of two ways.  They return the
\* context, which then holds a non-null engine and a module list whose only
\* entry is the seed module, registered and allocated; or they panic, and
\* then the seed did not compile, or the engine came back null, or a
\* dependency of the seed did not load.  A seed that did not compile never
\* gets past the expect, and no constructor returns with a null engine.
C12_ConstructOrAbort ==
    InNew =>
        /\ pc \in {"new_join", "new_build", "new_load", "ret", "panicked"}
        /\ pc = "ret" =>
              /\ ret = RetUnit
              /\ ee = "live"
              /\ wres.some
              /\ modules = <<wres.modp>>
              /\ engineMods = {wres.modp}
              /\ wres.modp \in live
        /\ pc = "panicked" =>
              \/ ~pending.some /\ ee = "null"
              \/ pending.some /\ ee = "null" /\ modules = <<>>
              \/ pending.some /\ ee # "null" /\ loadLog # pending.deps
        /\ (JoinedCall /\ (payload # "none" \/ ~wres.some)) =>
              pc = "panicked" /\ ee = "null"
        /\ ee = "null" => pc # "ret" /\ modules = <<>>

\* C12's case: new has returned its context.
C12_Witness ==
    /\ Returned("new")
    /\ ee = "live"
    /\ Len(modules) = 1
    /\ modules[1] \in engineMods

\* s is an initial part of t.
IsPrefix(s, t) == Len(s) <= Len(t) /\ s = SubSeq(t, 1, Len(s))

\* C13: with_analysis runs phases 1, 2 and 3 at most, and the inspector
\* only after all three; code generation never runs and no native module is
\* made; it returns the inspector's result or None and never panics in the
\* caller; and throughout the call the module list, the engine, its
\* registered modules, the native modules and the loaded libraries are as
\* they were before it.
C13_AnalysisOnly ==
    op = "with_analysis" =>
        /\ IsPrefix(ran, <<1, 2, 3>>)
        /\ wst \notin {"entry", "p4", "post"}
        /\ trans = NoTrans
        /\ wst = "inspect" => ran = <<1, 2, 3>>
        /\ pc \in {"an_join", "ret"}
        /\ pc = "ret" =>
              /\ ret \in {RetNone, RetSome(<<"R">>)}
              /\ ret.tag = "Some" <=>
                    (ran = <<1, 2, 3>> /\ wres.some /\ payload = "none")
        /\ modules = pre.modules
        /\ engineMods = pre.engineMods
        /\ loaded = pre.loaded
        /\ live = pre.live
        /\ symtab = pre.symtab
        /\ ee = pre.ee

\* C13's case: with_analysis has returned the inspector's result from a
\* context that holds two modules.
C13_Witness ==
    /\ Returned("with_analysis")
    /\ ret = RetSome(<<"R">>)
    /\ ran = <<1, 2, 3>>
    /\ Len(modules) >= 2

\* The call's worker was joined after it panicked with payload k.
AbortedWith(k) == JoinedCall /\ payload = k

\* C14 as stated: after a FatalError and after an ExplicitBug alike, the
\* supervisor writes no bug report and writes the captured buffer out.
C14_ExpectedAbortFlushes ==
    (AbortedWith("FatalError") \/ AbortedWith("ExplicitBug")) =>
        out = <<"flush">>

\* C14 amended: after a FatalError the supervisor writes nothing at all,
\* neither a bug report nor the captured buffer; after an ExplicitBug it
\* writes no bug report and writes the captured buffer out.
C14_ExpectedAbortOutput ==
    /\ AbortedWith("FatalError") => out = <<>>
    /\ AbortedWith("ExplicitBug") => out = <<"flush">>

\* C14's case: add_module has returned None after its worker raised a
\* FatalError past code generation, and the supervisor wrote nothing.
C14_Witness ==
    /\ Returned("add_module")
    /\ AbortedWith("FatalError")
    /\ 4 \in Range(ran)
    /\ out = <<>>

\* C15: after a panic that is neither a FatalError nor an ExplicitBug the
\* supervisor writes the bug report once and the captured buffer after it;
\* after any other end of the worker (it finished, or it panicked with one
\* of the two) there is no bug report; and nothing is written before the
\* worker is joined.
C15_BugReportOnceThenFlush ==
    /\ AbortedWith("Other") => out = <<"bug_report", "flush">>
    /\ payload # "Other" => \A i \in 1..Len(out) : out[i] # "bug_report"
    /\ wst # "none" => out = <<>>

\* C15's case: with_analysis has returned None after its inspector
\* panicked, and the bug report and the buffer were written.
C15_Witness ==
    /\ Returned("with_analysis")
    /\ AbortedWith("Other")
    /\ ran = <<1, 2, 3>>
    /\ out = <<"bug_report", "flush">>

\* Where the calling thread waits in handle.join().
JoinPoints == {"new_join", "add_join", "an_join"}

\* C16: a worker is spawned only by a call that starts a compile or an
\* analysis, when no worker exists, and it starts the task from its first
\* step with nothing carried over; once it has finished or panicked it takes
\* no further step and is gone at the join; while a worker exists the
\* calling thread stays in join and leaves it only when the worker has
\* finished or panicked; and no step taken while a worker exists changes
\* the module list, the engine, its registered modules or the loaded
\* libraries.
C16_OneWorkerCallerBlocked ==
    [][/\ wst # "none" => pc \in JoinPoints
       /\ wst' # "none" => pc' \in JoinPoints
       /\ (wst = "none" /\ wst' # "none") =>
             /\ pc \in {"init", "idle"}
             /\ wst' = "p1"
             /\ ran' = <<>>
             /\ payload' = "none"
             /\ ~errors'
             /\ trans' = NoTrans
             /\ wres' = NoWres
             /\ out' = <<>>
       /\ wst \in {"finished", "panicked"} =>
             \/ wst' = "none"
             \/ UNCHANGED <<wst, ran, payload, errors, trans, wres>>
       /\ (pc \in JoinPoints /\ pc' # pc) =>
             wst \in {"finished", "panicked"} /\ wst' = "none"
       /\ (wst # "none" \/ wst' # "none") =>
             UNCHANGED <<ee, modules, engineMods, loaded>>]_vars

\* C16's case: after an earlier worker crashed, the worker of a later
\* add_module is generating code while the caller waits, the context
\* holding two modules.
C16_Witness ==
    /\ crashed
    /\ op = "add_module"
    /\ pc = "add_join"
    /\ wst = "p4"
    /\ Len(modules) >= 2

\* The calls that run compile_input.
Compiling == op \in {"new", "new_with_input", "add_module"}

\* The task has failed: a phase returned Err or the worker panicked.
TaskFailed == errors \/ payload # "none"

\* C17: in compile_input the phases run in the order 1, 2, 3, 4, each at
\* most once; a phase runs only while nothing has failed, so the phase that
\* fails is the last one run and the worker ends there; a Some((modp,
\* deps)) is the task's value only when all four phases ran and none
\* failed; and a failed task makes compile_input None (the constructors
\* panic at expect, add_module returns None).
C17_PhaseOrder ==
    [][Compiling' =>
          /\ IsPrefix(ran', <<1, 2, 3, 4>>)
          /\ Len(ran') > Len(ran) =>
                /\ ~TaskFailed
                /\ ran' = Append(ran, Len(ran) + 1)
                /\ TaskFailed' => wst' \in {"finished", "panicked"}
          /\ TaskFailed' => ~wres'.some /\ ~pending'.some
          /\ wres'.some => ran' = <<1, 2, 3, 4>> /\ trans'.done
          /\ (JoinedCall' /\ TaskFailed') =>
                /\ InNew' => pc' = "panicked"
                /\ op' = "add_module" => pc' = "ret" /\ ret' = RetNone]_vars

\* C17's case: add_module has returned None from a compile whose phase 2
\* failed; phases 3 and 4 did not run.
C17_Witness ==
    /\ Returned("add_module")
    /\ errors
    /\ payload = "none"
    /\ ran = <<1, 2>>
    /\ ret = RetNone

\* The first entry of the module list before the call, 0 for an empty list.
FirstBefore == IF pre.modules = <<>> THEN 0 ELSE pre.modules[1]

\* The current call is remove_module given the address of the first entry.
RemovesFirst == op = "remove_module" /\ arg[1] = FirstBefore

\* Positions after the first whose module defines name with the kind.
LaterDefiners(kind, name) ==
    {i \in 2..Len(modules) : symtab[modules[i]][name] = kind}

\* C18: a constructor returns with the seed module as the one entry of the
\* list; add_module returns an address that no entry of the list had, so
\* never the seed's; and throughout every call on a context whose list is
\* not empty, other than a remove_module given the first entry's address,
\* the first entry stays the first entry, registered, allocated and with
\* its definitions, until the context is dropped.  So the seed stays first
\* and registered over any calls that pass remove_module only addresses
\* add_module returned.  Once the caller has the context, a name the first
\* entry defines resolves: to its definition when no later entry defines
\* the name, else to a later entry's.
C18_SeedStays ==
    /\ (InNew /\ pc = "ret") =>
          modules = <<wres.modp>> /\ wres.modp \in engineMods
    /\ (Returned("add_module") /\ ret.tag = "Some") =>
          ret.val[1] \notin Range(pre.modules)
    /\ (op \notin {"none", "new", "new_with_input"} /\ FirstBefore # 0
          /\ ~RemovesFirst /\ ee = "live") =>
          /\ modules # <<>>
          /\ modules[1] = FirstBefore
          /\ \A i \in 2..Len(modules) : modules[i] # FirstBefore
          /\ FirstBefore \in engineMods
          /\ FirstBefore \in live
          /\ symtab[FirstBefore] = pre.symtab[FirstBefore]
    /\ (pc \in {"idle", "ret"} /\ modules # <<>>) =>
          \A n \in Names :
             /\ symtab[modules[1]][n] = "fn" =>
                   IF LaterDefiners("fn", n) = {}
                   THEN get_function(Snapshot, n) = RetSome(<<modules[1], n>>)
                   ELSE /\ get_function(Snapshot, n).tag = "Some"
                        /\ get_function(Snapshot, n).val[1] # modules[1]
             /\ symtab[modules[1]][n] = "global" =>
                   IF LaterDefiners("global", n) = {}
                   THEN get_global(Snapshot, n) = RetSome(<<modules[1], n>>)
                   ELSE /\ get_global(Snapshot, n).tag = "Some"
                        /\ get_global(Snapshot, n).val[1] # modules[1]

\* C18's case: a module that shadowed the first entry's f was added and
\* has been removed by its handle; the first entry is the only one left
\* and f resolves to its definition again.
C18_Witness ==
    /\ Returned("remove_module")
    /\ ~RemovesFirst
    /\ modules = <<FirstBefore>>
    /\ Len(pre.modules) = 2
    /\ get_function(pre, "f") = RetSome(<<arg[1], "f">>)
    /\ get_function(Snapshot, "f") = RetSome(<<FirstBefore, "f">>)

\* C19: no native module is released when it is not allocated (neither by
\* LLVMDisposeModule nor by the engine's teardown); every module the list
\* names and every module the engine holds is allocated, so no lookup, one
\* that could start now or the one that has just ended, reads a disposed
\* module, and the teardown releases none a second time; and
\* remove_module comes to LLVMDisposeModule with the module already out of
\* the list and out of the engine, disposes exactly that module, and
\* leaves the other modules allocated.
C19_NoDoubleFreeNoStaleScan ==
    /\ ~freedTwice
    /\ \A i \in 1..Len(modules) : modules[i] \in live
    /\ engineMods \subseteq live
    /\ pc = "idle" =>
          \A n \in Names :
             /\ get_function(Snapshot, n).tag # "Undefined"
             /\ get_global(Snapshot, n).tag # "Undefined"
    /\ op = "get_function" => get_function(pre, arg[1]).tag # "Undefined"
    /\ op = "get_global" => get_global(pre, arg[1]).tag # "Undefined"
    /\ pc = "rm_dispose" =>
          /\ arg[1] \in live
          /\ arg[1] \notin Range(modules)
          /\ arg[1] \notin engineMods
    /\ Returned("remove_module") =>
          /\ live = pre.live \ {arg[1]}
          /\ arg[1] \in pre.live
    /\ ee = "disposed" => modules = <<>> /\ engineMods = {}

\* C19's case: the newest of three modules was removed and disposed; the
\* lookup of f over the two that remain finds an allocated module.
C19_Witness ==
    /\ Returned("remove_module")
    /\ Len(pre.modules) = 3
    /\ arg[1] = pre.modules[3]
    /\ arg[1] \notin live
    /\ get_function(Snapshot, "f").tag = "Some"
    /\ get_function(Snapshot, "f").val[1] \in live

\* s without its entries equal to h, the others in their order.
Without(s, h) ==
    LET Other(x) == x # h
    IN  SelectSeq(s, Other)

\* C20: the module list never names a module twice; an add_module that
\* returned Some(h) has put h, which was not in the list, at its end and
\* left the entries before it as they were, and one that returned None
\* left the list as it was; a remove_module(h) that returned has taken out
\* the one entry h and left the others in their order; get_function,
\* get_global and with_analysis leave the list as it is.
C20_ListOrder ==
    /\ \A i, j \in 1..Len(modules) : i # j => modules[i] # modules[j]
    /\ (Returned("add_module") /\ ret.tag = "Some") =>
          /\ modules = Append(pre.modules, ret.val[1])
          /\ ret.val[1] \notin Range(pre.modules)
    /\ (Returned("add_module") /\ ret.tag = "None") => modules = pre.modules
    /\ Returned("remove_module") =>
          /\ modules = Without(pre.modules, arg[1])
          /\ Len(modules) = Len(pre.modules) - 1
    /\ op \in {"get_function", "get_global", "with_analysis"} =>
          modules = pre.modules

\* C20's case: of three modules the second was removed; the first and the
\* third remain, in that order.
C20_Witness ==
    /\ Returned("remove_module")
    /\ Len(pre.modules) = 3
    /\ arg[1] = pre.modules[2]
    /\ modules = <<pre.modules[1], pre.modules[3]>>

=============================================================================
